---- MODULE Spec2Model ----
(***************************************************************************)
(* Model of eorsky/visibility.py: the observatory configuration calls      *)
(* (set_fov, set_pointings, set_beam), one call of                         *)
(* observatory.make_visibilities, the worker processes running             *)
(* observatory.vis_calc, the shared completion counter Nfin, the manager   *)
(* queue vis_array, and the controller's wait loop, drain loop and sort.   *)
(*                                                                         *)
(* Python's None is the empty sequence <<>>, a present value x is <<x>>.   *)
(* Python indices (times, baselines, processes) are kept 0-based as        *)
(* values; TLA+ sequences holding them are 1-based, so a[i] is a[i+1].     *)
(* Floating point quantities are kept as integers in scaled units: angles  *)
(* in units of 0.0001 rad, unit vectors, beam responses and fringes in     *)
(* units of 0.0001, a complex number as the pair <<re, im>>; the final     *)
(* division by conv_fact is kept as an unreduced fraction.                 *)
(***************************************************************************)
EXTENDS Integers, Sequences, FiniteSets, TLC

\* ---------------------------------------------------------------- bounds
MaxTimes == 2
MaxBls == 2
MaxProcs == 2
NFreqs == 1

\* ------------------------------------------------------- input alphabets
None == <<>>
Some(x) == <<x>>

\* field of view values handed to set_fov (degrees)
FovChoices == {100}
\* beam type names handed to set_beam / analyticbeam
BeamTypeChoices == {"uniform", "gaussian", "airy"}
\* sigma keyword handed to set_beam: absent, or a width in degrees
SigmaChoices == {None, Some(21)}
\* pixel counts of the shell handed to make_visibilities
NpixChoices == {12, 13}
\* frequency counts of the shell handed to make_visibilities
ShellNfreqsChoices == {NFreqs, NFreqs + 1}
\* leading axis of the shell handed to make_visibilities: absent for a 2-D
\* shell (Npix, Nfreqs), the number of sky realizations for a 3-D shell
\* (Nskies, Npix, Nfreqs)
ShellNskiesChoices == {None, Some(2)}

VARIABLES
    Nbls,            \* len(self.array)
    fov,             \* self.fov
    beam,            \* self.beam (None while the attribute was never set)
    times_jd,        \* self.times_jd (None while the attribute was never set)
    pointing_centers,\* self.pointing_centers (None while never set)
    ctl,             \* position of the caller / controller
    err,             \* exception raised to the caller by its last call
    shell_shape,     \* shell.shape of the make_visibilities call
    Nside,           \* self.Nside
    conv_fact,       \* conv_fact, one factor per frequency
    Nprocs,          \* Nprocs argument
    Ntimes,          \* self.Ntimes
    pcenter_list,    \* np.array_split(self.pointing_centers, Nprocs)
    time_inds_split, \* np.array_split(range(self.Ntimes), Nprocs)
    nstarted,        \* pi of the spawn loop: processes started so far
    wpc,             \* position of each worker process
    wcount,          \* count of vis_calc's outer loop, per worker
    wbi,             \* bi of vis_calc's inner loop, per worker
    wtmp,            \* value of Nfin.value read by a worker's += 1
    lockHolder,      \* holder of Nfin's lock
    Nfin,            \* Nfin.value
    vis_array,       \* the manager queue
    published,       \* history: every entry ever put on vis_array
    visibilities,    \* list collected by the drain loop, then sorted
    time_inds,       \* list collected by the drain loop, then sorted
    baseline_inds,   \* list collected by the drain loop
    result           \* the returned triple

obsVars == <<Nbls, fov, beam, times_jd, pointing_centers>>
callVars == <<Nside, conv_fact, Nprocs, Ntimes, pcenter_list, time_inds_split>>
workerVars == <<wpc, wcount, wbi, wtmp, lockHolder, Nfin>>
queueVars == <<vis_array, published>>
drainVars == <<visibilities, time_inds, baseline_inds, result>>
vars == <<obsVars, ctl, err, shell_shape, callVars, nstarted, workerVars, queueVars, drainVars>>

\* ---------------------------------------------------------- pure helpers
RECURSIVE SumTo(_, _)
SumTo(f, n) == IF n = 0 THEN 0 ELSE f[n] + SumTo(f, n - 1)

Range(n) == [i \in 1..n |-> i - 1]

\* A Julian date is the pair <<day, frac>>: the whole days and the fraction of
\* a day in units of 0.000000001 day.
\* T0 of the time axis (Julian date of the J2000 epoch)
T0 == 2451545

\* sample i (0-based) of np.linspace(t0, t0 + Ntimes / (3600 * 24 / 11), Ntimes)
\* for Ntimes = n: the n samples span 11 n seconds, and one second is
\* 11574.074 units of the fraction
JdOf(n, i) ==
    <<T0, IF n <= 1 THEN 0
          ELSE (i * 11 * n * 11574074 + 500 * (n - 1)) \div (1000 * (n - 1))>>

\* time_arr of n samples handed to set_pointings
TimeArr(n) == [i \in 1..n |-> JdOf(n, i - 1)]

\* latitude and longitude of the observatory, in units of 0.01 degree
Latitude == -3072
Longitude == 2143

\* one entry of set_pointings' centers: [ra, dec] in units of 0.01 degree of
\* the direction AltAz(alt = 89 deg, az = 0 deg) at time jd, one degree north
\* of the zenith on the local meridian.  Its right ascension is the local
\* sidereal time: the Greenwich sidereal angle, 280.46 deg at the J2000 epoch
\* and growing by 360.9856 deg a day, plus the longitude; its declination is
\* the latitude plus one degree.  Precession since J2000, nutation and
\* aberration stay below the unit of 0.01 degree over the times modelled.
ZenithRaDec(jd) ==
    LET gst == 28046 + (3609856 * (jd[1] - T0) + 50) \div 100
                     + ((jd[2] \div 100) * 361 + 50000) \div 100000
    IN  <<(gst + Longitude) % 36000, Latitude + 100>>

\* ------------------------------------------------ fixed-point arithmetic
\* the value 1.0
One == 10000
\* np.pi, in units of 0.0001 rad
Pi == 31416

\* a / b rounded to the nearest integer, for b > 0
Div(a, b) == (a + b \div 2) \div b
\* the product of two fixed-point values
Mul(a, b) == Div(a * b, One)
Abs(x) == IF x < 0 THEN -x ELSE x

\* The numerical functions are TLA+ functions, so that an argument is
\* computed once when the function is applied.

\* sin(x) for 0 <= x <= pi / 2
SinQ[x \in Int] ==
    Mul(x, One - Div(Mul(Mul(x, x),
           One - Div(Mul(Mul(x, x),
           One - Div(Mul(Mul(x, x),
           One - Div(Mul(x, x), 72)), 42)), 20)), 6))

\* np.sin, np.cos
Sin[a \in Int] ==
    LET r == a % (2 * Pi)
    IN  IF r <= Pi \div 2 THEN SinQ[r]
        ELSE IF r <= Pi THEN SinQ[Pi - r]
        ELSE IF r <= Pi + Pi \div 2 THEN -SinQ[r - Pi]
        ELSE -SinQ[2 * Pi - r]

Cos[a \in Int] == Sin[a + Pi \div 2]

\* the largest r in lo..hi with r * r <= n
SqrtBetween[n \in Int, lo \in Int, hi \in Int] ==
    IF lo >= hi THEN lo
    ELSE IF ((lo + hi + 1) \div 2) * ((lo + hi + 1) \div 2) <= n
         THEN SqrtBetween[n, (lo + hi + 1) \div 2, hi]
         ELSE SqrtBetween[n, lo, (lo + hi + 1) \div 2 - 1]

\* the largest angle a in lo..hi with tan(a) <= y / x, for x, y >= 0
AtanBetween[y \in Int, x \in Int, lo \in Int, hi \in Int] ==
    IF lo >= hi THEN lo
    ELSE IF Sin[(lo + hi + 1) \div 2] * x <= y * Cos[(lo + hi + 1) \div 2]
         THEN AtanBetween[y, x, (lo + hi + 1) \div 2, hi]
         ELSE AtanBetween[y, x, lo, (lo + hi + 1) \div 2 - 1]

\* np.arctan2(y, x), in (-pi, pi]
ArcTan2[y \in Int, x \in Int] ==
    IF x = 0 /\ y = 0 THEN 0
    ELSE IF x >= 0
         THEN (IF y >= 0 THEN AtanBetween[y, x, 0, Pi \div 2]
                         ELSE -AtanBetween[-y, x, 0, Pi \div 2])
         ELSE (IF y >= 0 THEN Pi - AtanBetween[y, -x, 0, Pi \div 2]
                         ELSE AtanBetween[-y, -x, 0, Pi \div 2] - Pi)

\* np.tensordot of two 3-vectors, np.cross
Dot[u \in Seq(Int), v \in Seq(Int)] ==
    Div(u[1] * v[1] + u[2] * v[2] + u[3] * v[3], One)

Cross[u \in Seq(Int), v \in Seq(Int)] ==
    <<Div(u[2] * v[3] - u[3] * v[2], One),
      Div(u[3] * v[1] - u[1] * v[3], One),
      Div(u[1] * v[2] - u[2] * v[1], One)>>

Norm[u \in Seq(Int)] ==
    SqrtBetween[u[1] * u[1] + u[2] * u[2] + u[3] * u[3], 0, 2 * One]

\* np.arccos(u . v) of two unit vectors, taken as arctan2(|u x v|, u . v):
\* the same angle, and four digits are kept where u . v is close to 1
ArcCosDot[u \in Seq(Int), v \in Seq(Int)] == ArcTan2[Norm[Cross[u, v]], Dot[u, v]]

\* np.radians of an angle in units of 0.01 degree
Radians(cdeg) == Div(cdeg * Pi, 18000)

\* a numpy array: the sequence f with every element computed
Array(f) == f \o <<>>

\* ------------------------------------------------------ HEALPix geometry
\* hp.npix2nside: the Nside with 12 Nside^2 = Npix, None when there is none
IsNpixOK(npix) == \E n \in 1..npix : 12 * n * n = npix
npix2nside(npix) == CHOOSE n \in 1..npix : 12 * n * n = npix

\* hp.ang2vec(lon, lat, lonlat=True)
ang2vec[lon \in Int, lat \in Int] ==
    <<Mul(Sin[Radians(9000 - lat)], Cos[Radians(lon)]),
      Mul(Sin[Radians(9000 - lat)], Sin[Radians(lon)]),
      Cos[Radians(9000 - lat)]>>

\* the ring of the k-th pixel (k >= 0) of a polar cap, counted from the pole
RingOfCap[k \in Nat] == CHOOSE i \in 1..(k + 1) : 2 * i * (i - 1) <= k /\ k < 2 * i * (i + 1)

\* z = cos(colatitude) and longitude phi of the centre of pixel p, RING scheme
pix2zphi[nside \in Nat, p \in Nat] ==
    LET npix == 12 * nside * nside
        ncap == 2 * nside * (nside - 1)
    IN  IF p < ncap
        THEN LET i == RingOfCap[p]
                 j == p + 1 - 2 * i * (i - 1)
             IN  [z |-> One - Div(i * i * One, 3 * nside * nside),
                  phi |-> Div((2 * j - 1) * Pi, 4 * i)]
        ELSE IF p < npix - ncap
        THEN LET i == (p - ncap) \div (4 * nside) + nside
                 j == ((p - ncap) % (4 * nside)) + 1
                 s == IF (i + nside) % 2 = 0 THEN 1 ELSE 2
             IN  [z |-> Div((2 * nside - i) * 2 * One, 3 * nside),
                  phi |-> Div((2 * j - s) * Pi, 4 * nside)]
        ELSE LET i == RingOfCap[npix - 1 - p]
                 j == 4 * i - (npix - 1 - p - 2 * i * (i - 1))
             IN  [z |-> Div(i * i * One, 3 * nside * nside) - One,
                  phi |-> Div((2 * j - 1) * Pi, 4 * i)]

\* the unit vector of longitude phi and z = cos(colatitude)
zphi2vec[z \in Int, phi \in Int] ==
    <<Mul(SqrtBetween[One * One - z * z, 0, One], Cos[phi]),
      Mul(SqrtBetween[One * One - z * z, 0, One], Sin[phi]),
      z>>

\* hp.pix2vec(nside, p)
pix2vec[nside \in Nat, p \in Nat] ==
    zphi2vec[pix2zphi[nside, p].z, pix2zphi[nside, p].phi]

\* hp.query_disc(nside, cvec, radius): the pixels whose centre lies within
\* radius of cvec
query_disc[nside \in Nat, cvec \in Seq(Int), radius \in Int] ==
    {p \in 0..(12 * nside * nside - 1) : Dot[pix2vec[nside, p], cvec] >= Cos[radius]}

\* the elements of a set of integers in ascending order
Ascending[S \in SUBSET Int] ==
    IF S = {} THEN <<>>
    ELSE LET m == CHOOSE x \in S : \A y \in S : x <= y
         IN  <<m>> \o Ascending[S \ {m}]

\* lines 229-236 of calc_azza for the pixels pix around cvec
azza_of[nside \in Nat, cvec \in Seq(Int), sincolat \in Int, pix \in Seq(Int)] ==
    LET xvec == <<Div(-cvec[2] * One, sincolat), Div(cvec[1] * One, sincolat), 0>>
        yvec == Cross[cvec, xvec]
    IN  [za_arr |-> Array([k \in 1..Len(pix) |-> ArcCosDot[pix2vec[nside, pix[k]], cvec]]),
         az_arr |-> Array([k \in 1..Len(pix) |->
                        (ArcTan2[Dot[pix2vec[nside, pix[k]], xvec],
                                 Dot[pix2vec[nside, pix[k]], yvec]] + Pi) % (2 * Pi)]),
         pix |-> pix]

\* observatory.calc_azza(Nside, center, return_inds=True) with self.fov set:
\* the pixels within fov / 2 of the centre, their zenith angles and azimuths
calc_azza[nside \in Nat, center \in Seq(Int), fovdeg \in Int] ==
    azza_of[nside,
            ang2vec[center[1], center[2]],
            Sin[Radians(9000 - center[2])],
            Ascending[query_disc[nside, ang2vec[center[1], center[2]],
                                 Div(fovdeg * Pi, 360)]]]

\* ------------------------------------------------------------- the beam
\* analyticbeam.__init__: the constructed object, or the exception raised;
\* sigma is handed over in degrees and kept in units of 0.0001 rad
AnalyticBeamLazy(beam_type, sigma) ==
    IF beam_type \notin {"uniform", "gaussian"}
    THEN [exc |-> "NotImplementedError", obj |-> None]
    ELSE [exc |-> "", obj |-> Some([beam_type |-> beam_type, sigma |-> sigma])]

analyticbeam(beam_type, sigma) ==
    IF beam_type \notin {"uniform", "gaussian"}
    THEN [exc |-> "NotImplementedError", obj |-> None]
    ELSE IF beam_type = "gaussian"
         THEN IF sigma = None
              THEN [exc |-> "KeyError", obj |-> None]
              ELSE [exc |-> "",
                    obj |-> Some([beam_type |-> beam_type,
                                  sigma |-> Some((sigma[1] * Pi) \div 180)])]
         ELSE [exc |-> "", obj |-> Some([beam_type |-> beam_type, sigma |-> None])]

\* exp(-y) for 0 <= y <= 0.5
ExpNegSmall(y) ==
    One - y + (y * y) \div 20000
        - (((y * y) \div 10000) * y) \div 60000
        + (((y * y) \div 10000) * ((y * y) \div 10000)) \div 240000

Squared(v) == (v * v) \div One

\* np.exp(-x) for 0 <= x <= 4: exp(-x/8) raised to the 8th power
ExpNeg(x) == Squared(Squared(Squared(ExpNegSmall(x \div 8))))

\* analyticbeam.beam_val(az, za) of one pixel: 1 for the uniform beam,
\* exp(-za^2 / (2 sigma^2)) for the gaussian beam
beam_val(b, az, za) ==
    IF b.beam_type = "uniform"
    THEN One
    ELSE ExpNeg((za * za) \div ((2 * b.sigma[1] * b.sigma[1]) \div 10000))

\* ------------------------------------------------ fringe and visibility
\* the speed of light in m/s
c_ms == 299792458

\* self.freqs[fi] in MHz
Freq(fi) == 100 + 10 * fi

\* c_ms / freq in units of 0.0001 m, which is c_cmps / f in units of 0.01 cm
Wavelength(f) == c_ms \div (f * 100)

\* jy2Tstr(f, bm) in units of 0.000001 K sr / Jy, with f in MHz and bm in
\* units of 0.0001 sr: 1e-23 lam^2 / (2 k_boltz bm), 2 k_boltz = 2.7613e-16
jy2Tstr(f, bm) ==
    LET lam == Wavelength(f)
    IN  (((lam * lam) \div One) * 1000) \div ((27613 * bm) \div One)

\* pix_area_sr = 4 pi / Npix
pix_area_sr(npix) == Div(4 * Pi, npix)

\* self.array[bi].enu in units of 0.1 m: east-north-up of ant1 - ant2
BaselineEnu(bi) == <<0, -146 * (bi + 1), 0>>

\* the sky handed to make_visibilities, in K: shell[sky, pix, fi] of a 3-D
\* shell, and shell[pix, fi] of a 2-D shell with sky = 0
Shell(sky, pix, fi) == ((3 * pix + 5 * fi + 2 * sky) % 7) - 3

\* make_fringe(az, za, freq, enu) for one pixel and one frequency: the
\* complex number <<re, im>> = cos(2 pi u.l) + i sin(2 pi u.l)
make_fringe(az, za, f, enu) ==
    LET lmn == <<Mul(Sin[az], Sin[za]), Mul(Cos[az], Sin[za]), Cos[za]>>
        uvw == [j \in 1..3 |-> Div(enu[j] * 1000000, Wavelength(f)) * 10]
        udotl == Div(lmn[1] * uvw[1], One) + Div(lmn[2] * uvw[2], One)
                 + Div(lmn[3] * uvw[3], One)
        phase == Div((udotl % One) * 2 * Pi, One)
    IN  <<Cos[phase], Sin[phase]>>

\* what calc_azza returns
AzZa == [za_arr : Seq(Int), az_arr : Seq(Int), pix : Seq(Int)]

\* lines 278-284 of vis_calc for pointing centre c and baseline bi:
\* calc_azza, the beam cube, the fringe cube and
\* np.sum(shell[..., pix, :] * beam_cube * fringe_cube, axis=-2): one complex
\* number <<re, im>> per frequency for a 2-D shell (nskies = None), and one
\* such vector per sky realization for a 3-D shell (vis.shape = (Nskies,
\* Nfreqs))
VisVector(c, bi, nside, b, fovdeg, nskies) ==
    LET sum[a \in AzZa] ==
            LET n == Len(a.pix)
                beam_one == [k \in 1..n |-> beam_val(b, a.az_arr[k], a.za_arr[k])]
                fringe(k, fi) ==
                    make_fringe(a.az_arr[k], a.za_arr[k], Freq(fi), BaselineEnu(bi))
                term(sky, fi, part) ==
                    [k \in 1..n |->
                        Shell(sky, a.pix[k], fi) * Mul(beam_one[k], fringe(k, fi)[part])]
                row(sky) ==
                    Array([fi \in 1..NFreqs |->
                              <<SumTo(term(sky, fi - 1, 1), n),
                                SumTo(term(sky, fi - 1, 2), n)>>])
            IN  IF nskies = None
                THEN row(0)
                ELSE Array([sky \in 1..nskies[1] |-> row(sky - 1)])
    IN  sum[calc_azza[nside, c, fovdeg]]

\* the arguments vis_calc can meet within the bounds
Centers == {ZenithRaDec(JdOf(a[1], a[2])) :
               a \in {b \in (1..MaxTimes) \X (0..(MaxTimes - 1)) : b[2] < b[1]}}
Nsides == {npix2nside(npix) : npix \in {m \in NpixChoices : IsNpixOK(m)}}
Beams == {analyticbeam(a[1], a[2]).obj[1] :
             a \in {x \in BeamTypeChoices \X SigmaChoices :
                       analyticbeam(x[1], x[2]).exc = ""}}

\* VisVector tabulated for these arguments (the merge with the empty
\* function makes the table explicit)
VisTable ==
    [a \in Centers \X (0..(MaxBls - 1)) \X Nsides \X Beams \X FovChoices
            \X ShellNskiesChoices |->
        VisVector(a[1], a[2], a[3], a[4], a[5], a[6])] @@ <<>>

vis(c, bi, nside, b, fovdeg, nskies) == VisTable[<<c, bi, nside, b, fovdeg, nskies>>]

\* np.array_split(ary, n): n sections, the first len % n one longer
SectionSize(total, n, i) ==
    IF i <= total % n THEN (total \div n) + 1 ELSE total \div n

DivPoint(total, n, i) ==
    SumTo([j \in 1..n |-> SectionSize(total, n, j)], i)

ArraySplitDropExtras(ary, n) ==
    [i \in 1..n |-> SubSeq(ary, (i - 1) * (Len(ary) \div n) + 1, i * (Len(ary) \div n))]

ArraySplit(ary, n) ==
    [i \in 1..n |-> SubSeq(ary, DivPoint(Len(ary), n, i - 1) + 1,
                                DivPoint(Len(ary), n, i))]

\* np.lexsort((time_inds, baseline_inds)): last key is the primary key
LexLessTimeFirst(ti, bi, i, j) ==
    \/ ti[i] < ti[j]
    \/ ti[i] = ti[j] /\ bi[i] < bi[j]

LexLess(ti, bi, i, j) ==
    \/ bi[i] < bi[j]
    \/ bi[i] = bi[j] /\ ti[i] < ti[j]

\* the place of index i in the stable sort: after every index with a smaller
\* key and after every earlier index with an equal key
Rank(ti, bi, i) ==
    1 + Cardinality({j \in 1..Len(ti) :
                        \/ LexLess(ti, bi, j, i)
                        \/ ~LexLess(ti, bi, i, j) /\ j < i})

\* the permutation srt with keys ascending along srt
lexsort(ti, bi) ==
    [p \in 1..Len(ti) |-> CHOOSE i \in 1..Len(ti) : Rank(ti, bi, i) = p]

\* fancy indexing arr[srt]
TakeUnsorted(arr, srt) == arr

Take(arr, srt) == [i \in 1..Len(srt) |-> arr[srt[i]]]

\* one vector over the frequencies divided by conv_fact, channel by channel
ConvertChannels(vec, conv) == [fi \in 1..Len(vec) |-> <<vec[fi], conv[fi]>>]

\* visibilities / conv_fact for one row: conv_fact is broadcast along the
\* last axis, over the sky realizations when the row has that axis
Convert(varr, conv, nskies) ==
    IF nskies = None
    THEN ConvertChannels(varr, conv)
    ELSE [sky \in 1..Len(varr) |-> ConvertChannels(varr[sky], conv)]

\* ------------------------------------------------------------ initial state
\* observatory(latitude, longitude, array=[...Nbls baselines...], freqs=freqs)
Init ==
    /\ Nbls \in 1..MaxBls
    /\ fov = None
    /\ beam = None
    /\ times_jd = None
    /\ pointing_centers = None
    /\ ctl = "idle"
    /\ err = ""
    /\ shell_shape = None
    /\ Nside = 0
    /\ conv_fact = <<>>
    /\ Nprocs = 0
    /\ Ntimes = 0
    /\ pcenter_list = <<>>
    /\ time_inds_split = <<>>
    /\ nstarted = 0
    /\ wpc = <<>>
    /\ wcount = <<>>
    /\ wbi = <<>>
    /\ wtmp = <<>>
    /\ lockHolder = None
    /\ Nfin = 0
    /\ vis_array = <<>>
    /\ published = {}
    /\ visibilities = <<>>
    /\ time_inds = <<>>
    /\ baseline_inds = <<>>
    /\ result = None

\* ------------------------------------------------- configuration calls
set_fov(f) ==
    /\ ctl = "idle"
    /\ fov' = Some(f)
    /\ err' = ""
    /\ UNCHANGED <<Nbls, beam, times_jd, pointing_centers, ctl, shell_shape, callVars,
                   nstarted, workerVars, queueVars, drainVars>>

set_pointings(n) ==
    /\ ctl = "idle"
    /\ times_jd' = Some(TimeArr(n))
    /\ pointing_centers' = Some([i \in 1..n |-> ZenithRaDec(TimeArr(n)[i])])
    /\ err' = ""
    /\ UNCHANGED <<Nbls, fov, beam, ctl, shell_shape, callVars,
                   nstarted, workerVars, queueVars, drainVars>>

set_beam(beam_type, sigma) ==
    /\ ctl = "idle"
    /\ LET r == analyticbeam(beam_type, sigma)
       IN  IF r.exc = ""
           THEN beam' = r.obj /\ err' = ""
           ELSE beam' = beam /\ err' = r.exc
    /\ UNCHANGED <<Nbls, fov, times_jd, pointing_centers, ctl, shell_shape, callVars,
                   nstarted, workerVars, queueVars, drainVars>>

\* ------------------------------------------- make_visibilities: the call
\* lines 305-325: the shape of the shell (3-D with Nskies when nskies is
\* present, 2-D otherwise), validation, the split, the queue and the counter
make_visibilities(nskies, npix, nfreqs, nprocs) ==
    /\ ctl = "idle"
    /\ shell_shape' = Some([Nskies |-> nskies, Npix |-> npix, Nfreqs |-> nfreqs])
    /\ IF nfreqs # NFreqs
       THEN /\ ctl' = "raised"
            /\ err' = "AssertionError"
            /\ UNCHANGED <<callVars, wpc, wcount, wbi, wtmp>>
       ELSE IF ~IsNpixOK(npix)
       THEN /\ ctl' = "raised"
            /\ err' = "ValueError"
            /\ UNCHANGED <<callVars, wpc, wcount, wbi, wtmp>>
       ELSE IF pointing_centers = None
       THEN /\ ctl' = "raised"
            /\ err' = "AttributeError"
            /\ Nside' = npix2nside(npix)
            /\ UNCHANGED <<conv_fact, Nprocs, Ntimes, pcenter_list, time_inds_split,
                           wpc, wcount, wbi, wtmp>>
       ELSE /\ ctl' = "spawn"
            /\ err' = ""
            /\ Nside' = npix2nside(npix)
            /\ conv_fact' = [fi \in 1..NFreqs |-> jy2Tstr(Freq(fi - 1), pix_area_sr(npix))]
            /\ Ntimes' = Len(pointing_centers[1])
            /\ Nprocs' = nprocs
            /\ pcenter_list' = ArraySplit(pointing_centers[1], nprocs)
            /\ time_inds_split' = ArraySplit(Range(Len(pointing_centers[1])), nprocs)
            /\ wpc' = [w \in 1..nprocs |-> "notstarted"]
            /\ wcount' = [w \in 1..nprocs |-> 0]
            /\ wbi' = [w \in 1..nprocs |-> 0]
            /\ wtmp' = [w \in 1..nprocs |-> 0]
    /\ UNCHANGED <<obsVars, nstarted, lockHolder, Nfin, queueVars, drainVars>>

\* lines 326-329: one pass of the spawn loop, p.start() of process pi
Spawn ==
    /\ ctl = "spawn"
    /\ wpc' = [wpc EXCEPT ![nstarted + 1] = "start"]
    /\ nstarted' = nstarted + 1
    /\ ctl' = IF nstarted + 1 = Nprocs THEN "wait" ELSE "spawn"
    /\ UNCHANGED <<obsVars, err, shell_shape, callVars, wcount, wbi, wtmp, lockHolder, Nfin,
                   queueVars, drainVars>>

\* p.is_alive(): the process was started and has not exited yet, neither
\* normally nor by a death; a process whose vis_calc has returned or raised
\* is alive until it exits
is_alive(w) == wpc[w] \notin {"notstarted", "done", "dead"}

\* the getter of Nfin.value (lines 330, 331) takes Nfin's lock and blocks
\* while another process holds it
NfinReadable == lockHolder = None

\* line 330, first operand: Nfin.value is read under the lock; the loop is
\* left (lines 332-334) when all time samples are counted
WaitRead ==
    /\ ctl = "wait"
    /\ NfinReadable
    /\ IF Nfin < Ntimes
       THEN /\ ctl' = "wait_poll"
            /\ UNCHANGED <<visibilities, time_inds, baseline_inds>>
       ELSE /\ ctl' = "drain_get"
            /\ visibilities' = <<>>
            /\ time_inds' = <<>>
            /\ baseline_inds' = <<>>
    /\ UNCHANGED <<obsVars, err, shell_shape, callVars, nstarted, workerVars, queueVars, result>>

\* line 330, second operand: the processes are polled; the loop is left
\* (lines 332-334) when none is alive
WaitPoll ==
    /\ ctl = "wait_poll"
    /\ IF \E w \in 1..Nprocs : is_alive(w)
       THEN /\ ctl' = "wait_update"
            /\ UNCHANGED <<visibilities, time_inds, baseline_inds>>
       ELSE /\ ctl' = "drain_get"
            /\ visibilities' = <<>>
            /\ time_inds' = <<>>
            /\ baseline_inds' = <<>>
    /\ UNCHANGED <<obsVars, err, shell_shape, callVars, nstarted, workerVars, queueVars, result>>

\* line 331: prog.update(Nfin.value), one more read under the lock
WaitUpdate ==
    /\ ctl = "wait_update"
    /\ NfinReadable
    /\ ctl' = "wait"
    /\ UNCHANGED <<obsVars, err, shell_shape, callVars, nstarted, workerVars, queueVars, drainVars>>

\* lines 336-340: vis_array.get() blocks until an entry is there
DrainGet ==
    /\ ctl = "drain_get"
    /\ vis_array # <<>>
    /\ LET e == Head(vis_array)
       IN  /\ visibilities' = Append(visibilities, e.v)
           /\ time_inds' = Append(time_inds, e.t)
           /\ baseline_inds' = Append(baseline_inds, e.b)
    /\ vis_array' = Tail(vis_array)
    /\ ctl' = "drain_check"
    /\ UNCHANGED <<obsVars, err, shell_shape, callVars, nstarted, workerVars, published, result>>

\* lines 341-342: the drain loop stops when the queue reports empty
DrainCheck ==
    /\ ctl = "drain_check"
    /\ ctl' = IF vis_array = <<>> THEN "sort" ELSE "drain_get"
    /\ UNCHANGED <<obsVars, err, shell_shape, callVars, nstarted, workerVars, queueVars, drainVars>>

\* lines 344-351: sort, convert and return
Return ==
    /\ ctl = "sort"
    /\ LET srt == lexsort(time_inds, baseline_inds)
           tsorted == Take(time_inds, srt)
       IN  /\ time_inds' = tsorted
           /\ visibilities' = Take(visibilities, srt)
           /\ result' = Some([
                  visibilities |-> [i \in 1..Len(srt) |->
                                      Convert(Take(visibilities, srt)[i], conv_fact,
                                              shell_shape[1].Nskies)],
                  time_array |-> [i \in 1..Len(srt) |-> times_jd[1][tsorted[i] + 1]],
                  baseline_array |-> Take(baseline_inds, srt)])
    /\ ctl' = "returned"
    /\ UNCHANGED <<obsVars, err, shell_shape, callVars, nstarted, workerVars, queueVars,
                   baseline_inds>>

\* ------------------------------------------------------ vis_calc: a worker
\* lines 274-276: with an empty chunk vis_calc returns at line 275
WorkerStart(w) ==
    /\ w \in DOMAIN wpc
    /\ wpc[w] = "start"
    /\ wpc' = [wpc EXCEPT ![w] = IF Len(pcenter_list[w]) = 0 THEN "returned" ELSE "azza"]
    /\ UNCHANGED <<obsVars, ctl, err, shell_shape, callVars, nstarted, wcount, wbi, wtmp,
                   lockHolder, Nfin, queueVars, drainVars>>

\* lines 277-281: calc_azza raises AttributeError in the worker when fov is
\* None, and self.beam raises AttributeError when no beam was ever set; the
\* exception ends vis_calc
WorkerProject(w) ==
    /\ w \in DOMAIN wpc
    /\ wpc[w] = "azza"
    /\ wpc' = [wpc EXCEPT ![w] = IF fov = None \/ beam = None THEN "failed" ELSE "put"]
    /\ wbi' = [wbi EXCEPT ![w] = 0]
    /\ UNCHANGED <<obsVars, ctl, err, shell_shape, callVars, nstarted, wcount, wtmp,
                   lockHolder, Nfin, queueVars, drainVars>>

\* line 286: the tuple put on the queue
PutEntryChunkIndex(w) ==
    [t |-> wcount[w],
     b |-> wbi[w],
     v |-> vis(pcenter_list[w][wcount[w] + 1], wbi[w], Nside, beam[1], fov[1],
               shell_shape[1].Nskies)]

PutEntry(w) ==
    [t |-> time_inds_split[w][wcount[w] + 1],
     b |-> wbi[w],
     v |-> vis(pcenter_list[w][wcount[w] + 1], wbi[w], Nside, beam[1], fov[1],
               shell_shape[1].Nskies)]

\* lines 282-286: one pass of the baseline loop
WorkerPut(w) ==
    /\ w \in DOMAIN wpc
    /\ wpc[w] = "put"
    /\ vis_array' = Append(vis_array, PutEntry(w))
    /\ published' = published \cup
          {[e |-> PutEntry(w), c |-> pcenter_list[w][wcount[w] + 1], w |-> w,
            k |-> wcount[w]]}
    /\ wbi' = [wbi EXCEPT ![w] = wbi[w] + 1]
    /\ wpc' = [wpc EXCEPT ![w] = IF wbi[w] + 1 = Nbls THEN "lock" ELSE "put"]
    /\ UNCHANGED <<obsVars, ctl, err, shell_shape, callVars, nstarted, wcount, wtmp,
                   lockHolder, Nfin, drainVars>>

\* line 287: Nfin.get_lock() can be taken
LockFreeNoLock(w) == TRUE

LockFreeNever(w) == FALSE

LockFree(w) == lockHolder = None

\* lines 287-288: the lock is taken and Nfin.value is read
WorkerLock(w) ==
    /\ w \in DOMAIN wpc
    /\ wpc[w] = "lock"
    /\ LockFree(w)
    /\ lockHolder' = Some(w)
    /\ wtmp' = [wtmp EXCEPT ![w] = Nfin]
    /\ wpc' = [wpc EXCEPT ![w] = "inc"]
    /\ UNCHANGED <<obsVars, ctl, err, shell_shape, callVars, nstarted, wcount, wbi, Nfin,
                   queueVars, drainVars>>

\* mp.current_process().name of worker w: the pi of the spawn loop
ProcessName(w) == w - 1

\* line 288 and the end of the with block: Nfin.value is written and the
\* lock released; line 289 sends the process named 1 to the report of line
\* 292, every other process to the next pass of the outer loop, or to the
\* return of vis_calc after its last pointing centre
WorkerInc(w) ==
    /\ w \in DOMAIN wpc
    /\ wpc[w] = "inc"
    /\ Nfin' = wtmp[w] + 1
    /\ lockHolder' = None
    /\ wtmp' = [wtmp EXCEPT ![w] = 0]
    /\ wcount' = [wcount EXCEPT ![w] = wcount[w] + 1]
    /\ wpc' = [wpc EXCEPT ![w] =
                 IF ProcessName(w) = 1 THEN "report"
                 ELSE IF wcount[w] + 1 = Len(pcenter_list[w]) THEN "returned" ELSE "azza"]
    /\ UNCHANGED <<obsVars, ctl, err, shell_shape, callVars, nstarted, wbi, queueVars, drainVars>>

\* lines 292-293: the process named 1 reads Nfin.value for its report; the
\* getter takes Nfin's lock and blocks while another process holds it
WorkerReport(w) ==
    /\ w \in DOMAIN wpc
    /\ wpc[w] = "report"
    /\ LockFree(w)
    /\ wpc' = [wpc EXCEPT ![w] =
                 IF wcount[w] = Len(pcenter_list[w]) THEN "returned" ELSE "azza"]
    /\ UNCHANGED <<obsVars, ctl, err, shell_shape, callVars, nstarted, wcount, wbi, wtmp,
                   lockHolder, Nfin, queueVars, drainVars>>

\* the process exits after vis_calc has ended: normally after a return, with
\* an error exit code after an exception; only from this step on is
\* p.is_alive() false
WorkerExit(w) ==
    /\ w \in DOMAIN wpc
    /\ wpc[w] \in {"returned", "failed"}
    /\ wpc' = [wpc EXCEPT ![w] = IF wpc[w] = "returned" THEN "done" ELSE "dead"]
    /\ UNCHANGED <<obsVars, ctl, err, shell_shape, callVars, nstarted, wcount, wbi, wtmp,
                   lockHolder, Nfin, queueVars, drainVars>>

\* a worker process is killed (a signal, out of memory) at any point of
\* vis_calc and is dead at once; after vis_calc has ended a kill is the exit
\* of WorkerExit.  A worker that dies inside the with block of lines 287-288
\* leaves Nfin's lock held for ever; it dies either before or after its write
\* of Nfin.value.  The process named 1 can also die inside the getter of line
\* 292, with the lock it has just taken.
Crash(w) ==
    /\ w \in DOMAIN wpc
    /\ wpc[w] \in {"start", "azza", "put", "lock", "inc", "report"}
    /\ wpc' = [wpc EXCEPT ![w] = "dead"]
    /\ \/ UNCHANGED <<Nfin, wcount, lockHolder>>
       \/ /\ wpc[w] = "inc"
          /\ Nfin' = wtmp[w] + 1
          /\ wcount' = [wcount EXCEPT ![w] = wcount[w] + 1]
          /\ UNCHANGED lockHolder
       \/ /\ wpc[w] = "report"
          /\ LockFree(w)
          /\ lockHolder' = Some(w)
          /\ UNCHANGED <<Nfin, wcount>>
    /\ UNCHANGED <<obsVars, ctl, err, shell_shape, callVars, nstarted, wbi, wtmp,
                   queueVars, drainVars>>

\* ------------------------------------------------------- specifications
Configure ==
    \/ \E f \in FovChoices : set_fov(f)
    \/ \E n \in 0..MaxTimes : set_pointings(n)
    \/ \E bt \in BeamTypeChoices, sg \in SigmaChoices : set_beam(bt, sg)

Call ==
    \E nskies \in ShellNskiesChoices, npix \in NpixChoices,
       nfreqs \in ShellNfreqsChoices, nprocs \in 1..MaxProcs :
        make_visibilities(nskies, npix, nfreqs, nprocs)

Controller ==
    \/ Spawn
    \/ WaitRead
    \/ WaitPoll
    \/ WaitUpdate
    \/ DrainGet
    \/ DrainCheck
    \/ Return

Worker(w) ==
    \/ WorkerStart(w)
    \/ WorkerProject(w)
    \/ WorkerPut(w)
    \/ WorkerLock(w)
    \/ WorkerInc(w)
    \/ WorkerReport(w)
    \/ WorkerExit(w)

Workers == \E w \in 1..MaxProcs : Worker(w)

Crashes == \E w \in 1..MaxProcs : Crash(w)

NextNoCrash ==
    \/ Configure
    \/ Call
    \/ Controller
    \/ Workers

Next ==
    \/ Configure
    \/ Call
    \/ Controller
    \/ Workers
    \/ Crashes

\* every behaviour, worker processes may die at any time
Spec == Init /\ [][Next]_vars

\* behaviours in which no worker process is killed from outside
SpecNoCrash == Init /\ [][NextNoCrash]_vars

\* no outside kill, and the operating system schedules every process
FairSpec ==
    /\ Init
    /\ [][NextNoCrash]_vars
    /\ WF_vars(Controller)
    /\ \A w \in 1..MaxProcs : WF_vars(Worker(w))

\* ------------------------------------------------------------- the claims
Rows == result[1]
Expected == Ntimes * Nbls
SomeWorkerDied == \E w \in DOMAIN wpc : wpc[w] = "dead"
NoWorkerAlive == \A w \in DOMAIN wpc : ~is_alive(w)

\* C1: when every worker runs to completion and 1 <= Nprocs <= Ntimes, the
\* returned rows number Ntimes x Nbls and their (time index, baseline index)
\* labels hold every pair of 0..Ntimes-1 x 0..Nbls-1 exactly once.
C1_DenseResult ==
    (ctl = "returned" /\ Nprocs <= Ntimes) =>
        /\ Len(Rows.visibilities) = Expected
        /\ Len(Rows.time_array) = Expected
        /\ Len(Rows.baseline_array) = Expected
        /\ \A t \in 0..(Ntimes - 1), b \in 0..(Nbls - 1) :
              Cardinality({i \in 1..Len(Rows.baseline_array) :
                              time_inds[i] = t /\ Rows.baseline_array[i] = b}) = 1

C1_Witness ==
    /\ ctl = "returned"
    /\ Nprocs = 2 /\ Ntimes = 2 /\ Nbls = 2
    /\ Len(Rows.visibilities) = 4

\* the value make_visibilities returns as a function of the observatory and
\* the shell alone: rows in baseline-major order, one per (baseline, time)
CanonicalResult ==
    LET n == Len(pointing_centers[1])
        row(i) == [t |-> (i - 1) % n, b |-> (i - 1) \div n]
    IN  [visibilities |-> [i \in 1..(n * Nbls) |->
            Convert(vis(pointing_centers[1][row(i).t + 1], row(i).b,
                        npix2nside(shell_shape[1].Npix), beam[1], fov[1],
                        shell_shape[1].Nskies),
                    [fi \in 1..NFreqs |->
                        jy2Tstr(Freq(fi - 1), pix_area_sr(shell_shape[1].Npix))],
                    shell_shape[1].Nskies)],
         time_array |-> [i \in 1..(n * Nbls) |-> times_jd[1][row(i).t + 1]],
         baseline_array |-> [i \in 1..(n * Nbls) |-> row(i).b]]

\* C2: the returned triple is the same for every worker count and every
\* order in which the entries arrive on the queue: it equals the value fixed
\* by the inputs alone.
C2_Deterministic ==
    ctl = "returned" => result = Some(CanonicalResult)

C2_Witness ==
    /\ ctl = "returned"
    /\ Nprocs = 2
    /\ \E i, j \in 1..Len(baseline_inds) : i < j /\ baseline_inds[i] > baseline_inds[j]

\* C3: the returned rows are sorted ascending by (baseline index, time
\* index), and the time and baseline arrays are parallel to the rows: row i
\* is the vector a worker published for (t, b) with baseline_array[i] = b and
\* time_array[i] = times_jd[t].
C3_SortedParallel ==
    ctl = "returned" =>
        /\ \A i, j \in 1..Len(Rows.baseline_array) :
              i < j => \/ Rows.baseline_array[i] < Rows.baseline_array[j]
                       \/ /\ Rows.baseline_array[i] = Rows.baseline_array[j]
                          /\ time_inds[i] <= time_inds[j]
        /\ Len(Rows.visibilities) = Len(Rows.baseline_array)
        /\ Len(Rows.time_array) = Len(Rows.baseline_array)
        /\ \A i \in 1..Len(Rows.baseline_array) :
              \E p \in published :
                  /\ p.e.b = Rows.baseline_array[i]
                  /\ p.e.t = time_inds[i]
                  /\ Rows.time_array[i] = times_jd[1][p.e.t + 1]
                  /\ Rows.visibilities[i] = Convert(p.e.v, conv_fact, shell_shape[1].Nskies)

C3_Witness ==
    /\ ctl = "returned"
    /\ Len(Rows.baseline_array) = 4
    /\ Nbls = 2
    /\ baseline_inds # Rows.baseline_array

\* C4: an unset field of view, a frequency count mismatch or an invalid pixel
\* count makes make_visibilities fail with an error before any worker is
\* started and before any entry is published.
C4_ConfigErrorsAbortBeforeStart ==
    (/\ ctl # "idle"
     /\ \/ fov = None
        \/ shell_shape[1].Nfreqs # NFreqs
        \/ ~IsNpixOK(shell_shape[1].Npix))
    => (ctl = "raised" /\ nstarted = 0 /\ published = {})

\* Nfin's lock is held by a dead worker: it is never released
LockLost == \E w \in DOMAIN wpc : lockHolder = Some(w) /\ wpc[w] = "dead"

\* the controller sits for ever in vis_array.get() with nobody left to put,
\* or at a read of Nfin.value (line 330 or 331) behind a lost lock
Hung ==
    \/ ctl = "drain_get" /\ vis_array = <<>> /\ NoWorkerAlive
    \/ ctl \in {"wait", "wait_update"} /\ LockLost

\* C5: when a worker dies before finishing its chunk the call ends in an
\* error: it neither blocks forever on the results queue nor returns.
C5_WorkerDeathAborts ==
    SomeWorkerDied => (~Hung /\ ctl # "returned")

\* C6: the call never returns fewer than Ntimes x Nbls rows.
C6_NoPartialResult ==
    ctl = "returned" => Len(Rows.visibilities) = Expected

RECURSIVE Concat(_, _)
Concat(ss, n) == IF n = 0 THEN <<>> ELSE Concat(ss, n - 1) \o ss[n]

\* C7: the time indices are split into exactly Nprocs contiguous ascending
\* chunks that partition 0..Ntimes-1 with sizes differing by at most one, the
\* pointing centres are split at the same boundaries, one worker is started
\* per chunk, and every published entry carries the time index of the
\* pointing centre it was computed from.
C7_ChunksPartition ==
    ctl \notin {"idle", "raised"} =>
        /\ Len(time_inds_split) = Nprocs
        /\ Len(pcenter_list) = Nprocs
        /\ DOMAIN wpc = 1..Nprocs
        /\ Concat(time_inds_split, Nprocs) = Range(Ntimes)
        /\ \A v, w \in 1..Nprocs :
              Len(time_inds_split[v]) - Len(time_inds_split[w]) \in {-1, 0, 1}
        /\ \A w \in 1..Nprocs :
              /\ Len(pcenter_list[w]) = Len(time_inds_split[w])
              /\ \A k \in 1..Len(pcenter_list[w]) :
                    pcenter_list[w][k] = pointing_centers[1][time_inds_split[w][k] + 1]
        /\ ctl # "spawn" => \A w \in 1..Nprocs : wpc[w] # "notstarted"
        /\ \A p \in published :
              /\ p.e.t = time_inds_split[p.w][p.k + 1]
              /\ p.c = pointing_centers[1][p.e.t + 1]

C7_Witness ==
    /\ Nprocs = 2 /\ Ntimes = 2
    /\ \E p \in published : p.w = 2 /\ p.e.t = 1

\* the beam stored on the observatory is a supported, fully configured one
BeamValid ==
    beam # None =>
        /\ beam[1].beam_type \in {"uniform", "gaussian"}
        /\ beam[1].beam_type = "gaussian" => beam[1].sigma # None

BadBeamArgs(bt, sg) ==
    bt \notin {"uniform", "gaussian"} \/ (bt = "gaussian" /\ sg = None)

\* C8: set_beam with an unsupported type name, or with the gaussian type and
\* no sigma, fails in the constructor and stores nothing: the beam on the
\* observatory is unchanged, and no invalid beam is ever stored.
C8_BeamFailFast ==
    /\ []BeamValid
    /\ [][\A bt \in BeamTypeChoices, sg \in SigmaChoices :
            (set_beam(bt, sg) /\ BadBeamArgs(bt, sg)) =>
                (beam' = beam /\ err' \in {"NotImplementedError", "KeyError"})]_vars

C8_Witness ==
    /\ err = "KeyError"
    /\ beam # None

\* C9: with Ntimes >= 1, Nbls >= 1, a field of view and a beam set and no
\* worker killed, a started make_visibilities call returns, with the
\* expected number of rows, for any Nprocs >= 1 including Nprocs > Ntimes.
C9_Terminates ==
    (ctl = "spawn" /\ Ntimes >= 1 /\ Nbls >= 1 /\ fov # None /\ beam # None)
        ~> (ctl = "returned" /\ Len(visibilities) = Expected)

C9_Witness ==
    /\ ctl = "returned"
    /\ Nprocs > Ntimes
    /\ Len(visibilities) = Expected

\* the state part of C10
C10_Inv ==
    /\ 0 <= Nfin /\ Nfin <= Ntimes
    /\ Nfin = SumTo(wcount, Len(wcount))
    /\ \A w \in DOMAIN wpc :
          \A k \in 0..(wcount[w] - 1), b \in 0..(Nbls - 1) :
              \E p \in published : p.w = w /\ p.k = k /\ p.e.b = b
    /\ Cardinality(published) >= Nfin * Nbls
    /\ (ctl # "idle" /\ Nfin = Ntimes) =>
          /\ Cardinality(published) = Expected
          /\ ctl \in {"wait", "wait_poll", "wait_update"} => Len(vis_array) = Expected
          /\ ctl \in {"drain_get", "drain_check"} =>
                Len(vis_array) + Len(visibilities) = Expected

\* C10: Nfin stays within 0..Ntimes, never decreases, counts every finished
\* time sample (no increment is lost), and is incremented for a sample only
\* after all Nbls entries of that sample were published; so at least
\* Nfin x Nbls entries are published, and when Nfin = Ntimes all
\* Ntimes x Nbls entries are on the queue.
C10_PublishBeforeCount ==
    /\ []C10_Inv
    /\ [][Nfin' >= Nfin]_vars

C10_Witness ==
    /\ ctl = "wait"
    /\ Nprocs = 2 /\ Ntimes = 2
    /\ Nfin = Ntimes

====
